---- MODULE Spec2Model ----
(***************************************************************************)
(* Model of fetch_and_build.py: the filtering / deduplication / trimming / *)
(* aggregation pipeline that turns the downloaded Chess960 games of a      *)
(* roster of bot accounts into the master PGN of an opening book.          *)
(*                                                                         *)
(* Header values, FENs, moves and notations are strings.  The chess        *)
(* library (python-chess) is outside the repository; it is modelled by a   *)
(* small board: a FEN names a placement, the side to move and the move     *)
(* number, a move belongs to the side that plays it, and the notation of a *)
(* line is rendered move by move with move numbers, as the library does.   *)
(***************************************************************************)
EXTENDS Integers, Sequences, FiniteSets, TLC

VARIABLES
    pc,            \* where main() (or the function under test) stands
    bot,           \* 1-based index into the roster of the account in hand
    pgn_count,     \* games parsed so far from the current account's stream
    games_by_fen,  \* ordered dict FEN -> list of trimmed games
    seen,          \* set of (fen, notation) keys
    final_games,   \* the list built by lines 120-123
    master_pgn,    \* the games written to MASTER_PGN
    encountered,   \* history: the distinct eligible games parsed so far, in order
    failed,        \* history: roster indices whose download failed
    run,           \* history: which invocation of main() this is
    frozen,        \* the frozen input set replayed by repeated runs
    previous,      \* history: final_games of the preceding invocation
    arg,           \* argument of the function under test
    ret            \* outcome of the function under test

vars == <<pc, bot, pgn_count, games_by_fen, seen, final_games, master_pgn,
          encountered, failed, run, frozen, previous, arg, ret>>

main_vars == <<bot, pgn_count, games_by_fen, seen, final_games, master_pgn,
               encountered, failed, run, frozen, previous>>

(***************************************************************************)
(* Program constants.                                                      *)
(***************************************************************************)
BOTS == <<"SoggiestShrimp", "AttackKing_Bot", "PositionalAI", "mayhem23111",
          "InvinxibleFlxsh", "YoBot_v2", "VEER-OMEGA-BOT", "MaggiChess16",
          "NimsiluBot", "pangubot", "Loss-Not-Defined", "Alexnajax_Fan",
          "strain-on-veins", "BOTTYBADDY11", "ChampionKitten",
          "LeelaMultiPoss", "ToromBot",
          "NNUE_Drift", "Strain-On-Veins", "Yuki_1324">>
MIN_RATING == 2375
MAX_PLIES == 24
MIN_FEN_GAMES == 3
SPEEDS == <<"blitz", "rapid", "classical", "bullet", "ultraBullet", "correspondence">>

(***************************************************************************)
(* Bounds of the model.                                                    *)
(***************************************************************************)
NumBots == 2       \* accounts of the roster that are run (a prefix of BOTS)
MaxStream == 3     \* games one account's export may hold
MaxMoves == 26     \* longest mainline given to trim_game on its own

Roster == SubSeq(BOTS, 1, NumBots)

(***************************************************************************)
(* Outcomes of a call: a returned value or a raised exception.             *)
(***************************************************************************)
Return(v) == [exc |-> "", val |-> v]
Raise(e) == [exc |-> e, val |-> ""]
NoCall == [exc |-> "pending", val |-> ""]

(***************************************************************************)
(* Strings, as Python treats them.                                         *)
(***************************************************************************)
Char(s, i) == SubSeq(s, i, i)

UpperCase == "ABCDEFGHIJKLMNOPQRSTUVWXYZ"
LowerCase == "abcdefghijklmnopqrstuvwxyz"
Digits == "0123456789"

LowerChar(c) ==
    IF \E i \in 1..26 : Char(UpperCase, i) = c
    THEN Char(LowerCase, CHOOSE i \in 1..26 : Char(UpperCase, i) = c)
    ELSE c

RECURSIVE lower(_)
lower(s) == IF s = "" THEN "" ELSE LowerChar(Char(s, 1)) \o lower(SubSeq(s, 2, Len(s)))

RECURSIVE lstrip(_)
lstrip(s) == IF s # "" /\ Char(s, 1) = " " THEN lstrip(SubSeq(s, 2, Len(s))) ELSE s

RECURSIVE rstrip(_)
rstrip(s) == IF s # "" /\ Char(s, Len(s)) = " " THEN rstrip(SubSeq(s, 1, Len(s) - 1)) ELSE s

strip(s) == rstrip(lstrip(s))

IsDigit(c) == \E d \in 1..10 : Char(Digits, d) = c
DigitVal(c) == (CHOOSE d \in 1..10 : Char(Digits, d) = c) - 1

\* the digits of an integer literal: digits, single underscores between them
IsLiteral(s) ==
    /\ s # ""
    /\ IsDigit(Char(s, 1))
    /\ IsDigit(Char(s, Len(s)))
    /\ \A i \in 1..Len(s) : IsDigit(Char(s, i)) \/ Char(s, i) = "_"
    /\ \A i \in 1..(Len(s) - 1) : ~(Char(s, i) = "_" /\ Char(s, i + 1) = "_")

RECURSIVE LiteralVal(_, _)
LiteralVal(s, acc) ==
    IF s = "" THEN acc
    ELSE IF Char(s, 1) = "_" THEN LiteralVal(SubSeq(s, 2, Len(s)), acc)
    ELSE LiteralVal(SubSeq(s, 2, Len(s)), 10 * acc + DigitVal(Char(s, 1)))

\* int(s): surrounding blanks and one sign are accepted, anything else raises
int(s) ==
    LET t == strip(s)
        signed == t # "" /\ (Char(t, 1) = "+" \/ Char(t, 1) = "-")
        body == IF signed THEN SubSeq(t, 2, Len(t)) ELSE t
    IN  IF ~IsLiteral(body) THEN Raise("ValueError")
        ELSE IF signed /\ Char(t, 1) = "-" THEN Return(0 - LiteralVal(body, 0))
        ELSE Return(LiteralVal(body, 0))

\* str(n) for a natural number
RECURSIVE str(_)
str(n) == IF n < 10 THEN Char(Digits, n + 1) ELSE str(n \div 10) \o Char(Digits, (n % 10) + 1)

(***************************************************************************)
(* Headers: a mapping from tag names to strings.                           *)
(***************************************************************************)
\* hd.get(k, default)
get(hd, k, default) == IF k \in DOMAIN hd THEN hd[k] ELSE default

\* hd.get(k): the value in a one-element tuple, or the empty tuple for None
get_or_none(hd, k) == IF k \in DOMAIN hd THEN <<hd[k]>> ELSE <<>>

\* the tags every chess.pgn.Game carries from its construction
DefaultHeaders ==
    [Event |-> "?", Site |-> "?", Date |-> "????.??.??", Round |-> "?",
     White |-> "?", Black |-> "?", Result |-> "*"]

(***************************************************************************)
(* is_good_game                                                            *)
(***************************************************************************)
LoweredSpeeds == {lower(SPEEDS[i]) : i \in 1..Len(SPEEDS)}
Results == {"1-0", "0-1", "1/2-1/2"}

\* line 69 with <= for <: a rating of exactly MIN_RATING is refused
RatingTooLow_inclusive(wr, br) == wr <= MIN_RATING \/ br <= MIN_RATING

RatingTooLow(wr, br) == wr < MIN_RATING \/ br < MIN_RATING

is_good_game(game) ==
    LET hd == game.headers
        wr == int(get(hd, "WhiteElo", "0"))
        br == int(get(hd, "BlackElo", "0"))
    IN  IF lower(get(hd, "Variant", "")) # "chess960" THEN Return(FALSE)
        ELSE IF get_or_none(hd, "SetUp") # <<"1">> \/ get_or_none(hd, "FEN") \in {<<>>, <<"">>}
            THEN Return(FALSE)
        ELSE IF lower(get(hd, "Speed", "")) \notin LoweredSpeeds THEN Return(FALSE)
        ELSE IF wr.exc = "ValueError" \/ br.exc = "ValueError" THEN Return(FALSE)
        ELSE IF RatingTooLow(wr.val, br.val) THEN Return(FALSE)
        ELSE IF get_or_none(hd, "Result") \notin {<<r>> : r \in Results} THEN Return(FALSE)
        ELSE Return(TRUE)

(***************************************************************************)
(* The chess library: boards, legality, notation.                          *)
(***************************************************************************)
\* chess.Board(fen): "<placement> <side to move> <move number>"
Board(fen) ==
    IF /\ Len(fen) = 6
       /\ Char(fen, 3) = " "
       /\ Char(fen, 4) \in {"w", "b"}
       /\ Char(fen, 5) = " "
       /\ IsDigit(Char(fen, 6))
       /\ DigitVal(Char(fen, 6)) >= 1
    THEN Return([placement |-> SubSeq(fen, 1, 2),
                 turn |-> Char(fen, 4),
                 fullmove_number |-> DigitVal(Char(fen, 6))])
    ELSE Raise("ValueError")

StartingBoard == [placement |-> "st", turn |-> "w", fullmove_number |-> 1]

\* game.board(): the position of the FEN header, the initial one without it
game_board(game) ==
    IF "FEN" \in DOMAIN game.headers THEN Board(game.headers["FEN"])
    ELSE Return(StartingBoard)

\* a move is "<side><piece move>"; only the side to move can play it
is_legal(board, mv) == Char(mv, 1) = board.turn

san(board, mv) == SubSeq(mv, 2, Len(mv))

push(board, mv) ==
    [placement |-> board.placement \o SubSeq(mv, 2, Len(mv)),
     turn |-> IF board.turn = "w" THEN "b" ELSE "w",
     fullmove_number |-> IF board.turn = "b" THEN board.fullmove_number + 1
                         ELSE board.fullmove_number]

RECURSIVE join(_)
join(parts) ==
    IF parts = <<>> THEN ""
    ELSE IF Len(parts) = 1 THEN parts[1]
    ELSE parts[1] \o " " \o join(Tail(parts))

\* board.variation_san(moves): "1. a b 2. a", or "1...b 2. a" when Black
\* starts; an illegal move raises
RECURSIVE variation_san_loop(_, _, _)
variation_san_loop(board, variation, sans) ==
    IF variation = <<>> THEN Return(join(sans))
    ELSE LET move == Head(variation) IN
         IF ~is_legal(board, move) THEN Raise("ValueError")
         ELSE IF board.turn = "w"
            THEN variation_san_loop(push(board, move), Tail(variation),
                    Append(sans, str(board.fullmove_number) \o ". " \o san(board, move)))
         ELSE IF sans = <<>>
            THEN variation_san_loop(push(board, move), Tail(variation),
                    Append(sans, str(board.fullmove_number) \o "..." \o san(board, move)))
         ELSE variation_san_loop(push(board, move), Tail(variation),
                    Append(sans, san(board, move)))

variation_san(board, variation) == variation_san_loop(board, variation, <<>>)

\* lines 111-112: key = (fen, g.board().variation_san(g.mainline_moves()))
game_key(game) ==
    LET b == game_board(game) IN
    IF b.exc # "" THEN Raise(b.exc)
    ELSE LET n == variation_san(b.val, game.moves) IN
         IF n.exc # "" THEN Raise(n.exc)
         ELSE Return(<<game.headers["FEN"], n.val>>)

(***************************************************************************)
(* trim_game                                                               *)
(***************************************************************************)
\* lines 78-79 skipping the tags a new Game already has
copy_headers_defaults_win(hd) ==
    [k \in DOMAIN DefaultHeaders \cup DOMAIN hd |->
        IF k \in DOMAIN DefaultHeaders THEN DefaultHeaders[k] ELSE hd[k]]

\* lines 78-79 missing: the new Game keeps its default tags only
copy_headers_none(hd) == DefaultHeaders

\* lines 77-79: a new Game has the default tags; every tag of the original
\* is then set on it
copy_headers(hd) ==
    [k \in DOMAIN DefaultHeaders \cup DOMAIN hd |->
        IF k \in DOMAIN hd THEN hd[k] ELSE DefaultHeaders[k]]

\* line 83 with > for >=: one ply more is kept
PlyLimitReached_late(ply) == ply > MAX_PLIES

PlyLimitReached(ply) == ply >= MAX_PLIES

\* lines 80-86: the moves are appended one by one, none is played on a board
RECURSIVE trim_loop(_, _, _)
trim_loop(moves, node, ply) ==
    IF moves = <<>> THEN node
    ELSE IF PlyLimitReached(ply) THEN node
    ELSE trim_loop(Tail(moves), Append(node, Head(moves)), ply + 1)

trim_game(game) ==
    IF "FEN" \notin DOMAIN game.headers THEN Raise("KeyError")
    ELSE LET board == Board(game.headers["FEN"]) IN
         IF board.exc # "" THEN Raise(board.exc)
         ELSE Return([headers |-> copy_headers(game.headers),
                      moves |-> trim_loop(game.moves, <<>>, 0)])

(***************************************************************************)
(* Games.  A parsed game has the default tags, overridden by its own.      *)
(***************************************************************************)
Absent == "<absent>"

\* the headers of a parsed game whose PGN gives the tags of `tags` that are
\* not Absent
Headers(tags) ==
    [k \in {t \in DOMAIN tags : tags[t] # Absent} |-> tags[k]] @@ DefaultHeaders

Game(tags, moves) == [headers |-> Headers(tags), moves |-> moves]

\* n plies played in turn, `first` to move first, every move "a" except that
\* the last one is `last`
Line(n, first, last) ==
    [i \in 1..n |->
        (IF (i % 2 = 1) = (first = "w") THEN "w" ELSE "b")
        \o (IF i = n THEN last ELSE "a")]

(***************************************************************************)
(* is_good_game on its own: one call on any headers.                       *)
(***************************************************************************)
VariantValues == {"chess960", "Chess960", "CHESS960", "standard", Absent}
SetUpValues == {"1", "0", Absent}
FenValues == {"f1 w 1", "", Absent}
SpeedValues == {"blitz", "ultraBullet", "ULTRABULLET", "Rapid", "daily", Absent}
EloValues == {"2375", "2374", "3000", "unrated", "", " 2375 ", "-2400", "2_375",
              "2375.0", Absent}
ResultValues == {"1-0", "0-1", "1/2-1/2", "*", Absent}

ValidatorInputs ==
    {Game([Variant |-> v, SetUp |-> s, FEN |-> f, Speed |-> sp,
           WhiteElo |-> w, BlackElo |-> b, Result |-> r], <<>>) :
        v \in VariantValues, s \in SetUpValues, f \in FenValues, sp \in SpeedValues,
        w \in EloValues, b \in EloValues, r \in ResultValues}

NoRun == [pc |-> "none", final_games |-> <<>>]

IdleMain ==
    /\ bot = 0
    /\ pgn_count = 0
    /\ games_by_fen = <<>>
    /\ seen = {}
    /\ final_games = <<>>
    /\ master_pgn = <<>>
    /\ encountered = <<>>
    /\ failed = {}
    /\ run = 0
    /\ frozen = <<>>
    /\ previous = NoRun

InitValid ==
    /\ pc = "call_is_good_game"
    /\ arg \in ValidatorInputs
    /\ ret = NoCall
    /\ IdleMain

CallIsGoodGame ==
    /\ pc = "call_is_good_game"
    /\ ret' = is_good_game(arg)
    /\ pc' = "returned_is_good_game"
    /\ UNCHANGED <<arg, main_vars>>

SpecValid == InitValid /\ [][CallIsGoodGame]_vars

(***************************************************************************)
(* trim_game on its own: one call on any game.                             *)
(***************************************************************************)
GoodTags(fen, speed) ==
    [Variant |-> "chess960", SetUp |-> "1", FEN |-> fen, Speed |-> speed,
     WhiteElo |-> "2500", BlackElo |-> "2375", Result |-> "1-0",
     White |-> "ToromBot", Event |-> "Rated Chess960 game"]

TrimTags ==
    {GoodTags("f1 w 1", "blitz"), GoodTags("f2 b 7", "rapid"), GoodTags("garbage", "blitz"),
     [GoodTags("f1 w 1", "bullet") EXCEPT !.WhiteElo = "2374"]}

TrimLines ==
    {Line(n, first, last) : n \in 0..MaxMoves, first \in {"w", "b"}, last \in {"a", "b"}}

TrimInputs == {Game(t, m) : t \in TrimTags, m \in TrimLines}

InitTrim ==
    /\ pc = "call_trim_game"
    /\ arg \in TrimInputs
    /\ ret = NoCall
    /\ IdleMain

CallTrimGame ==
    /\ pc = "call_trim_game"
    /\ ret' = trim_game(arg)
    /\ pc' = "returned_trim_game"
    /\ UNCHANGED <<arg, main_vars>>

SpecTrim == InitTrim /\ [][CallTrimGame]_vars

(***************************************************************************)
(* main(): the games the exports may hold.                                 *)
(***************************************************************************)
F1 == "f1 w 1"
F2 == "f2 b 7"
F3 == "f3 w 1"

gA == Game(GoodTags(F1, "blitz"), Line(2, "w", "a"))
gA2 == Game(GoodTags(F1, "rapid"), Line(2, "w", "a"))    \* the line of gA, another game
gL1 == Game(GoodTags(F1, "blitz"), Line(MAX_PLIES + 1, "w", "a"))
gL2 == Game(GoodTags(F1, "blitz"), Line(MAX_PLIES + 1, "w", "b"))  \* leaves gL1 at the last ply
gC1 == Game(GoodTags(F2, "bullet"), <<>>)
gC2 == Game(GoodTags(F2, "bullet"), Line(1, "b", "a"))
gC3 == Game(GoodTags(F2, "bullet"), Line(1, "b", "b"))
gLow == Game([GoodTags(F3, "blitz") EXCEPT !.WhiteElo = "2374"], Line(2, "w", "a"))
gIllegal == Game(GoodTags(F1, "blitz"), Line(2, "b", "a"))  \* Black moves with White to move
gBadFen == Game(GoodTags("garbage", "blitz"), <<>>)

Universe == {gA, gA2, gL1, gL2, gC1, gC2, gC3, gLow, gIllegal, gBadFen}

(***************************************************************************)
(* main(): the ordered dict, the seen set, the final list.                 *)
(***************************************************************************)
\* line 97 missing: the set of a previous run lives on
new_seen_kept(old) == old

\* line 96 and line 97, as the value the variable takes whatever it held
new_games_by_fen(old) == <<>>
new_seen(old) == {}

has_key(d, fen) == \E i \in 1..Len(d) : d[i].fen = fen
position(d, fen) == CHOOSE i \in 1..Len(d) : d[i].fen = fen

\* d[fen]: the list under fen, the empty list when there is none
lookup(d, fen) == IF has_key(d, fen) THEN d[position(d, fen)].arr ELSE <<>>

\* line 117 as games_by_fen[fen] = [tg]: the list is replaced
dict_append_overwrites(d, fen, tg) ==
    IF has_key(d, fen)
    THEN [d EXCEPT ![position(d, fen)].arr = <<tg>>]
    ELSE Append(d, [fen |-> fen, arr |-> <<tg>>])

\* line 117: games_by_fen[fen].append(tg); a new key goes last
dict_append(d, fen, tg) ==
    IF has_key(d, fen)
    THEN [d EXCEPT ![position(d, fen)].arr = Append(@, tg)]
    ELSE Append(d, [fen |-> fen, arr |-> <<tg>>])

\* line 115 missing: no key is ever recorded
seen_add_forgets(s, key) == s

\* line 115 as seen = {key}: the keys recorded before are lost
seen_add_only(s, key) == {key}

\* line 115 as seen.add(fen): the notation is left out of what is recorded
seen_add_fen_only(s, key) == s \cup {<<key[1], "">>}

\* line 113 missing: no game is ever taken for a duplicate
in_seen_never(key, s) == FALSE

\* line 113 and line 115
in_seen(key, s) == key \in s
seen_add(s, key) == s \cup {key}

\* line 112 rendering the key from the trimmed moves
key_moves_trimmed(game) == trim_loop(game.moves, <<>>, 0)

\* line 112: the moves the key is rendered from
key_moves(game) == game.moves

dedup_key(game) == game_key([game EXCEPT !.moves = key_moves(game)])

\* line 121: the dict is iterated in insertion order
items(d) == d

\* line 122 with > for >=: a group of exactly MIN_FEN_GAMES is dropped
keep_group_strict(arr) == Len(arr) > MIN_FEN_GAMES

\* line 122
keep_group(arr) == Len(arr) >= MIN_FEN_GAMES

\* line 123 putting each group in front of the list
extend_front(list, arr) == arr \o list

\* line 123
extend(list, arr) == list \o arr

RECURSIVE final_loop(_, _)
final_loop(its, list) ==
    IF its = <<>> THEN list
    ELSE IF keep_group(Head(its).arr) THEN final_loop(Tail(its), extend(list, Head(its).arr))
    ELSE final_loop(Tail(its), list)

\* line 104 as break: the loop over the roster is left
next_account_breaks(b) == [pc |-> "finalize", bot |-> b]

\* line 104 (continue) and the end of the inner loop: the next account, or
\* line 120 after the last one
next_account(b) ==
    IF b < Len(Roster) THEN [pc |-> "download", bot |-> b + 1]
    ELSE [pc |-> "finalize", bot |-> b]

\* lines 100-104 without the try: the exception leaves main()
on_download_failure_fatal(b) == [pc |-> "aborted", bot |-> b]

\* lines 102-104: a failed download is logged and the loop continues
on_download_failure(b) == next_account(b)

\* the history of the distinct eligible games parsed (lines 111-118)
note(g) ==
    IF \E i \in 1..Len(encountered) : encountered[i] = g THEN encountered
    ELSE Append(encountered, g)

\* what lines 109, 112 and 116 compute for each game an export may hold
\* (computed once per game, not once per step)
OfGame ==
    [g \in Universe |->
        [good |-> is_good_game(g).val, key |-> dedup_key(g), trimmed |-> trim_game(g)]]

(***************************************************************************)
(* main(): the steps.                                                      *)
(***************************************************************************)
Live == frozen = <<>>

Init ==
    /\ pc = "download"
    /\ bot = 1
    /\ pgn_count = 0
    /\ games_by_fen = new_games_by_fen(<<>>)
    /\ seen = new_seen({})
    /\ final_games = <<>>
    /\ master_pgn = <<>>
    /\ encountered = <<>>
    /\ failed = {}
    /\ run = 1
    /\ frozen = <<>>
    /\ previous = NoRun
    /\ arg = <<>>
    /\ ret = NoCall

\* line 101 returns the export
DownloadOk ==
    /\ pc = "download"
    /\ IF Live THEN TRUE ELSE frozen[bot].ok
    /\ pc' = "games"
    /\ pgn_count' = 0
    /\ UNCHANGED <<bot, games_by_fen, seen, final_games, master_pgn, encountered,
                   failed, run, frozen, previous, arg, ret>>

\* line 101 raises
DownloadFail ==
    /\ pc = "download"
    /\ IF Live THEN TRUE ELSE ~frozen[bot].ok
    /\ pc' = on_download_failure(bot).pc
    /\ bot' = on_download_failure(bot).bot
    /\ failed' = failed \cup {bot}
    /\ UNCHANGED <<pgn_count, games_by_fen, seen, final_games, master_pgn, encountered,
                   run, frozen, previous, arg, ret>>

\* the generator of line 107 yields g
Yields(g) ==
    /\ pc = "games"
    /\ IF Live THEN g \in Universe /\ pgn_count < MaxStream
       ELSE pgn_count < Len(frozen[bot].games) /\ g = frozen[bot].games[pgn_count + 1]

Candidates == IF Live THEN Universe ELSE {frozen[bot].games[i] : i \in 1..Len(frozen[bot].games)}

\* lines 108-110
SkipIneligible ==
    \E g \in Candidates :
        /\ Yields(g)
        /\ ~OfGame[g].good
        /\ pgn_count' = pgn_count + 1
        /\ UNCHANGED <<pc, bot, games_by_fen, seen, final_games, master_pgn, encountered,
                       failed, run, frozen, previous, arg, ret>>

\* lines 108-112, the key cannot be rendered: the exception leaves main()
RaiseOnKey ==
    \E g \in Candidates :
        /\ Yields(g)
        /\ OfGame[g].good
        /\ OfGame[g].key.exc # ""
        /\ pgn_count' = pgn_count + 1
        /\ encountered' = note(g)
        /\ pc' = "aborted"
        /\ UNCHANGED <<bot, games_by_fen, seen, final_games, master_pgn,
                       failed, run, frozen, previous, arg, ret>>

\* lines 108-114
SkipDuplicate ==
    \E g \in Candidates :
        /\ Yields(g)
        /\ OfGame[g].good
        /\ OfGame[g].key.exc = ""
        /\ in_seen(OfGame[g].key.val, seen)
        /\ pgn_count' = pgn_count + 1
        /\ encountered' = note(g)
        /\ UNCHANGED <<pc, bot, games_by_fen, seen, final_games, master_pgn,
                       failed, run, frozen, previous, arg, ret>>

\* lines 108-118
StoreGame ==
    \E g \in Candidates :
        /\ Yields(g)
        /\ OfGame[g].good
        /\ OfGame[g].key.exc = ""
        /\ ~in_seen(OfGame[g].key.val, seen)
        /\ pgn_count' = pgn_count + 1
        /\ encountered' = note(g)
        /\ seen' = seen_add(seen, OfGame[g].key.val)
        /\ LET tg == OfGame[g].trimmed IN
           IF tg.exc = ""
           THEN /\ games_by_fen' = dict_append(games_by_fen, g.headers["FEN"], tg.val)
                /\ pc' = pc
           ELSE /\ games_by_fen' = games_by_fen
                /\ pc' = "aborted"
        /\ UNCHANGED <<bot, final_games, master_pgn, failed, run, frozen, previous,
                       arg, ret>>

\* the generator of line 107 is exhausted
EndOfStream ==
    /\ pc = "games"
    /\ IF Live THEN TRUE ELSE pgn_count = Len(frozen[bot].games)
    /\ pc' = next_account(bot).pc
    /\ bot' = next_account(bot).bot
    /\ UNCHANGED <<pgn_count, games_by_fen, seen, final_games, master_pgn, encountered,
                   failed, run, frozen, previous, arg, ret>>

\* lines 120-125
Finalize ==
    /\ pc = "finalize"
    /\ final_games' = final_loop(items(games_by_fen), <<>>)
    /\ pc' = "write"
    /\ UNCHANGED <<bot, pgn_count, games_by_fen, seen, master_pgn, encountered,
                   failed, run, frozen, previous, arg, ret>>

\* lines 89-93 taking each game off the list as it is written
write_pgn_consumes(games) == [file |-> games, games |-> <<>>]

\* lines 89-93: the file holds every game of the list, in order; the list
\* is only iterated
write_pgn(games) == [file |-> games, games |-> games]

\* lines 126-127
WritePgn ==
    /\ pc = "write"
    /\ master_pgn' = write_pgn(final_games).file
    /\ final_games' = write_pgn(final_games).games
    /\ pc' = "book"
    /\ UNCHANGED <<bot, pgn_count, games_by_fen, seen, encountered,
                   failed, run, frozen, previous, arg, ret>>

\* lines 129-131: create_polyglot.py exits with 0 ...
BuildBook ==
    /\ pc = "book"
    /\ pc' = "done"
    /\ UNCHANGED <<main_vars, arg, ret>>

\* ... or with another status, and check=True raises
BuildBookFail ==
    /\ pc = "book"
    /\ pc' = "book_failed"
    /\ UNCHANGED <<main_vars, arg, ret>>

Next ==
    \/ DownloadOk
    \/ DownloadFail
    \/ SkipIneligible
    \/ RaiseOnKey
    \/ SkipDuplicate
    \/ StoreGame
    \/ EndOfStream
    \/ Finalize
    \/ WritePgn
    \/ BuildBook
    \/ BuildBookFail

Spec == Init /\ [][Next]_vars

(***************************************************************************)
(* main() run twice on one frozen input set: for each account of the       *)
(* roster, whether its download succeeds and the games its export holds.   *)
(***************************************************************************)
MaxFrozen == 2     \* games one account's export holds in a frozen input set

FrozenUniverse == {gA, gC1, gC2, gC3, gLow, gBadFen}

RECURSIVE Streams(_)
Streams(n) ==
    IF n = 0 THEN {<<>>}
    ELSE Streams(n - 1) \cup
         {Append(st, g) : st \in {x \in Streams(n - 1) : Len(x) = n - 1}, g \in FrozenUniverse}

FrozenExports ==
    {[ok |-> FALSE, games |-> <<>>]} \cup {[ok |-> TRUE, games |-> st] : st \in Streams(MaxFrozen)}

FrozenInputs == [1..Len(Roster) -> FrozenExports]

InitTwice ==
    /\ pc = "download"
    /\ bot = 1
    /\ pgn_count = 0
    /\ games_by_fen = new_games_by_fen(<<>>)
    /\ seen = new_seen({})
    /\ final_games = <<>>
    /\ master_pgn = <<>>
    /\ encountered = <<>>
    /\ failed = {}
    /\ run = 1
    /\ frozen \in FrozenInputs
    /\ previous = NoRun
    /\ arg = <<>>
    /\ ret = NoCall

\* the process has ended; main() is invoked again and runs lines 96-97
Restart ==
    /\ pc \in {"done", "aborted", "book_failed"}
    /\ run = 1
    /\ run' = 2
    /\ previous' = [pc |-> pc, final_games |-> final_games]
    /\ pc' = "download"
    /\ bot' = 1
    /\ pgn_count' = 0
    /\ games_by_fen' = new_games_by_fen(games_by_fen)
    /\ seen' = new_seen(seen)
    /\ final_games' = <<>>
    /\ encountered' = <<>>
    /\ failed' = {}
    /\ UNCHANGED <<master_pgn, frozen, arg, ret>>

NextTwice == Next \/ Restart

SpecTwice == InitTwice /\ [][NextTwice]_vars

(***************************************************************************)
(* What the properties speak of, stated on the games themselves.           *)
(***************************************************************************)
Computed == pc \in {"write", "book", "done", "book_failed"}

Prefix(moves, n) == SubSeq(moves, 1, IF Len(moves) < n THEN Len(moves) ELSE n)

Tag(game, k) == IF k \in DOMAIN game.headers THEN game.headers[k] ELSE Absent

Count(list, x) == Cardinality({i \in 1..Len(list) : list[i] = x})

\* per game: eligibility, the (FEN, full notation) key, the first 24 plies
\* under the same headers
Facts ==
    [g \in Universe |->
        [eligible |-> is_good_game(g).val,
         key |-> game_key(g),
         cut |-> [headers |-> g.headers, moves |-> Prefix(g.moves, 24)]]]

Keyed(g) == Facts[g].eligible /\ Facts[g].key.exc = ""

Index(g) == CHOOSE i \in 1..Len(encountered) : encountered[i] = g

Met == {encountered[i] : i \in 1..Len(encountered)}

\* the first game met with its key
FirstOfKey(g) ==
    /\ Keyed(g)
    /\ \A h \in Met : Keyed(h) /\ Facts[h].key.val = Facts[g].key.val => Index(g) <= Index(h)

\* the games met that were first with their key, in the order met
Admitted == SelectSeq(encountered, FirstOfKey)

AdmittedOf(fen) == SelectSeq(Admitted, LAMBDA g : Tag(g, "FEN") = fen)

Cuts(games) == [i \in 1..Len(games) |-> Facts[games[i]].cut]

RECURSIVE Flatten(_)
Flatten(lists) == IF lists = <<>> THEN <<>> ELSE Head(lists) \o Flatten(Tail(lists))

Stored == Flatten([i \in 1..Len(games_by_fen) |-> games_by_fen[i].arr])

\* the FENs of the admitted games, each once, in the order first admitted
RECURSIVE FenOrder(_, _)
FenOrder(games, fens) ==
    IF games = <<>> THEN fens
    ELSE IF \E i \in 1..Len(fens) : fens[i] = Tag(Head(games), "FEN")
        THEN FenOrder(Tail(games), fens)
    ELSE FenOrder(Tail(games), Append(fens, Tag(Head(games), "FEN")))

\* the dataset of the games met: per FEN in the order first admitted, the
\* cuts of its admitted games if there are three or more
Dataset ==
    LET fens == FenOrder(Admitted, <<>>) IN
    Flatten([i \in 1..Len(fens) |->
                IF Len(AdmittedOf(fens[i])) >= 3 THEN Cuts(AdmittedOf(fens[i])) ELSE <<>>])

AllFens == {Tag(g, "FEN") : g \in Universe}
AllCuts == {Facts[g].cut : g \in Universe}

(***************************************************************************)
(* Properties.                                                             *)
(***************************************************************************)

\* C1: of the eligible games met with one (FEN, full notation) key exactly
\* one is stored, the one met first: every content is stored as many times
\* as there are keys whose first game is cut to it, and the final list holds
\* nothing beyond what is stored.
C1_FirstOfEachKeyStored ==
    LET firsts == {h \in Met : FirstOfKey(h)}
        stored == Stored
    IN  \A t \in AllCuts :
            /\ Count(stored, t) =
                  Cardinality({Facts[g].key.val : g \in {h \in firsts : Facts[h].cut = t}})
            /\ Count(final_games, t) <= Count(stored, t)

C1_Witness ==
    /\ pc = "done"
    /\ gA \in Met /\ gA2 \in Met /\ Index(gA) < Index(gA2)
    /\ Count(final_games, Facts[gA].cut) = 1
    /\ Count(final_games, Facts[gA2].cut) = 0

\* C2: once the final list is built, a FEN with three or more admitted games
\* has every one of them in it, and a FEN with fewer has none.
C2_ThreeOrMoreOrAbsent ==
    Computed =>
        \A f \in AllFens :
            LET n == Len(AdmittedOf(f))
                inFinal == SelectSeq(final_games, LAMBDA t : t.headers["FEN"] = f)
            IN  /\ n >= 3 =>
                    /\ Len(inFinal) = n
                    /\ \A i \in 1..n : Count(inFinal, Facts[AdmittedOf(f)[i]].cut) >= 1
                /\ n < 3 => inFinal = <<>>
                /\ (inFinal # <<>>) <=> (n >= 3)

C2_Witness ==
    /\ pc = "done"
    /\ Len(AdmittedOf(F1)) = 3
    /\ Len(AdmittedOf(F2)) = 2
    /\ Len(final_games) = 3
    /\ gA2 \in Met

\* C3: is_good_game returns, never raises, and returns true exactly when the
\* five checks hold.
C3_Chess960 == {"chess960", "Chess960", "CHESS960"}
C3_Speeds == {"blitz", "ultraBullet", "ULTRABULLET", "Rapid"}
C3_Integers ==
    ("2375" :> 2375) @@ ("2374" :> 2374) @@ ("3000" :> 3000) @@ (" 2375 " :> 2375)
    @@ ("-2400" :> (0 - 2400)) @@ ("2_375" :> 2375)

C3_FiveChecks(g) ==
    /\ Tag(g, "Variant") \in C3_Chess960
    /\ Tag(g, "SetUp") = "1" /\ Tag(g, "FEN") \notin {"", Absent}
    /\ Tag(g, "Speed") \in C3_Speeds
    /\ \A k \in {"WhiteElo", "BlackElo"} :
          Tag(g, k) \in DOMAIN C3_Integers /\ C3_Integers[Tag(g, k)] >= 2375
    /\ Tag(g, "Result") \in {"1-0", "0-1", "1/2-1/2"}

C3_GoodGameIffFiveChecks ==
    pc = "returned_is_good_game" => ret.exc = "" /\ ret.val = C3_FiveChecks(arg)

C3_Witness ==
    /\ pc = "returned_is_good_game"
    /\ ret = Return(TRUE)
    /\ Tag(arg, "WhiteElo") = "2375"
    /\ Tag(arg, "BlackElo") = "2375"
    /\ Tag(arg, "Variant") = "Chess960"

\* C4: trim_game returns a game for every accepted game, and the moves of
\* the game it returns are the first min(len, 24) moves of the original.
C4_TrimKeepsFirst24 ==
    pc = "returned_trim_game" =>
        /\ is_good_game(arg).val /\ game_key(arg).exc = "" => ret.exc = ""
        /\ ret.exc = "" =>
              /\ ret.val.moves = Prefix(arg.moves, 24)
              /\ Len(ret.val.moves) <= 24

C4_Witness ==
    /\ pc = "returned_trim_game"
    /\ is_good_game(arg).val /\ game_key(arg).exc = ""
    /\ Len(arg.moves) = 26
    /\ ret.exc = ""
    /\ Len(ret.val.moves) = 24

\* C5: the game trim_game returns has the tags of the original with their
\* values, no more and no fewer, and the call leaves the original as it was.
C5_TrimKeepsHeaders ==
    [][pc = "call_trim_game" /\ pc' = "returned_trim_game" =>
          /\ arg' = arg
          /\ ret'.exc = "" =>
                /\ DOMAIN ret'.val.headers = DOMAIN arg.headers
                /\ \A k \in DOMAIN arg.headers : ret'.val.headers[k] = arg.headers[k]]_vars

C5_Witness ==
    /\ pc = "returned_trim_game"
    /\ ret.exc = ""
    /\ Len(arg.moves) > 24
    /\ arg.headers["FEN"] = F2
    /\ ret.val.headers["FEN"] = F2
    /\ ret.val.headers["White"] = "ToromBot"

\* C6: a failed download changes neither the seen set nor the groups and
\* hands over to the next account (to the final loop after the last one),
\* exactly as an empty export would; the final list is the dataset of the
\* games of the accounts that did not fail.
C6_FailureIsAnEmptyStream ==
    [][/\ pc = "download" /\ bot \in failed' =>
            /\ seen' = seen
            /\ games_by_fen' = games_by_fen
            /\ IF bot < NumBots THEN pc' = "download" /\ bot' = bot + 1
               ELSE pc' = "finalize"
       /\ pc = "finalize" /\ pc' = "write" /\ failed # {} => final_games' = Dataset]_vars

C6_Witness ==
    /\ pc = "done"
    /\ failed = {1}
    /\ Len(final_games) = 3

\* C7: the final list is the surviving groups one after the other, in the
\* order their FENs were first admitted, each in the order of admission.
C7_GroupsInOrderOfFirstFen ==
    Computed => final_games = Dataset

C7_Witness ==
    /\ pc = "done"
    /\ Len(final_games) = 6
    /\ Len(encountered) = 6
    /\ Tag(encountered[1], "FEN") = F2
    /\ Tag(encountered[2], "FEN") = F1
    /\ Tag(encountered[3], "FEN") = F2
    /\ final_games[1].headers["FEN"] = F2
    /\ final_games[4].headers["FEN"] = F1

\* C8: two eligible games with one FEN that agree on their first 24 plies
\* and differ later are both admitted: both keys are seen, their common cut
\* is stored twice, and both count toward the three games of a group.
C8_SameCut(g, h) ==
    /\ g # h
    /\ Keyed(g) /\ Keyed(h)
    /\ Tag(g, "FEN") = Tag(h, "FEN")
    /\ Len(g.moves) > 24 /\ Len(h.moves) > 24
    /\ Prefix(g.moves, 24) = Prefix(h.moves, 24)
    /\ g.moves # h.moves
    /\ g.headers = h.headers

C8_FullLineKey ==
    \A g, h \in Met :
        C8_SameCut(g, h) =>
            /\ Facts[g].key.val \in seen /\ Facts[h].key.val \in seen
            /\ Count(lookup(games_by_fen, Tag(g, "FEN")), Facts[g].cut) = 2
            /\ Computed /\ Len(AdmittedOf(Tag(g, "FEN"))) = 3 => Count(final_games, Facts[g].cut) = 2

C8_Witness ==
    /\ pc = "done"
    /\ Met = {gA, gL1, gL2}
    /\ Len(final_games) = 3
    /\ Count(final_games, Facts[gL1].cut) = 2

\* C9: a second run of main() on the same frozen input builds the final
\* list the first run built, and aborts where the first run aborted.
C9_SecondRunSameDataset ==
    run = 2 =>
        /\ Computed => previous.pc \in {"done", "book_failed"} /\ final_games = previous.final_games
        /\ pc = "aborted" => previous.pc = "aborted"

C9_Witness ==
    /\ run = 2
    /\ pc = "done"
    /\ Len(final_games) = 3
    /\ failed = {}

\* C10: trim_game raises when one of the moves it copies cannot be played
\* from the position of the FEN header.
C10_TrimRaisesOnIllegalMove ==
    pc = "returned_trim_game"
        /\ is_good_game(arg).val
        /\ game_board(arg).exc = ""
        /\ game_key([arg EXCEPT !.moves = Prefix(arg.moves, 24)]).exc # ""
    => ret.exc # ""

\* C11: from the state in which the final list has been built on, no step
\* of the run changes the seen set, the groups or the final list; writing
\* the file and building the book only read the list.
C11_FrozenAfterFinalList ==
    [][Computed =>
          /\ seen' = seen
          /\ games_by_fen' = games_by_fen
          /\ final_games' = final_games
          /\ Computed']_vars

C11_Witness ==
    /\ pc = "done"
    /\ Len(final_games) = 3
    /\ master_pgn = final_games
    /\ Cardinality(seen) = 4

\* C13: across every step of a run the seen set after the step contains
\* the seen set before it, and every group is still there, at its place,
\* with the list it had as a prefix of the list it has.
C13_SeenAndGroupsOnlyGrow ==
    [][/\ seen \subseteq seen'
       /\ Len(games_by_fen) <= Len(games_by_fen')
       /\ \A i \in 1..Len(games_by_fen) :
             /\ games_by_fen'[i].fen = games_by_fen[i].fen
             /\ Len(games_by_fen[i].arr) <= Len(games_by_fen'[i].arr)
             /\ SubSeq(games_by_fen'[i].arr, 1, Len(games_by_fen[i].arr)) = games_by_fen[i].arr]_vars

C13_Witness ==
    /\ pc = "done"
    /\ failed = {1}
    /\ Cardinality(seen) = 3
    /\ Len(games_by_fen) = 2
    /\ Len(games_by_fen[1].arr) = 2

\* is_good_game on each content a group can hold (computed once)
GoodCut == [t \in AllCuts |-> is_good_game(t).val]

StillGood(t) == IF t \in AllCuts THEN GoodCut[t] ELSE is_good_game(t).val

\* C15: every game stored under FEN f has the FEN header f and passes
\* is_good_game as stored, that is after trimming; so does every game of
\* the final list.
C15_StoredGamesAreGood ==
    /\ \A i \in 1..Len(games_by_fen) :
          \A j \in 1..Len(games_by_fen[i].arr) :
              /\ Tag(games_by_fen[i].arr[j], "FEN") = games_by_fen[i].fen
              /\ StillGood(games_by_fen[i].arr[j])
    /\ \A j \in 1..Len(final_games) : StillGood(final_games[j])

C15_Witness ==
    /\ pc = "done"
    /\ Len(games_by_fen) = 2
    /\ Len(final_games) = 3
    /\ Count(final_games, Facts[gL1].cut) = 2
    /\ \E j \in 1..3 : Len(final_games[j].moves) = 24

\* C17: between two games, the groups hold as many games as the seen set
\* holds keys, and the group of each FEN as many as there are seen keys
\* with that FEN.
C17_OneStoredGamePerSeenKey ==
    /\ Len(Stored) = Cardinality(seen)
    /\ \A f \in AllFens \cup {k[1] : k \in seen} \cup {games_by_fen[i].fen : i \in 1..Len(games_by_fen)} :
          Len(lookup(games_by_fen, f)) = Cardinality({k \in seen : k[1] = f})

C17_Witness ==
    /\ pc = "games"
    /\ bot = 2
    /\ Cardinality(seen) = 4
    /\ Len(lookup(games_by_fen, F1)) = 3
    /\ Len(lookup(games_by_fen, F2)) = 1

GroupFens(d) == {d[i].fen : i \in 1..Len(d)}

\* C12: the step that processes a game of a frozen export leaves the seen
\* set and the groups as they are when the game is ineligible or its key is
\* seen (no group appears for its FEN); when the game is admitted it adds
\* the one key, appends the one trimmed game to the group of its FEN and
\* leaves every other group as it is.
C12_GameStepChangesOnlyItsOwn ==
    [][pc = "games" /\ pgn_count' = pgn_count + 1 /\ ~Live =>
          LET g == frozen[bot].games[pgn_count + 1]
              f == Tag(g, "FEN")
          IN  /\ ~Facts[g].eligible \/ (Keyed(g) /\ Facts[g].key.val \in seen) =>
                    /\ seen' = seen
                    /\ games_by_fen' = games_by_fen
              /\ Keyed(g) /\ Facts[g].key.val \notin seen =>
                    /\ seen' = seen \cup {Facts[g].key.val}
                    /\ Cardinality(seen') = Cardinality(seen) + 1
                    /\ lookup(games_by_fen', f) = Append(lookup(games_by_fen, f), Facts[g].cut)
                    /\ GroupFens(games_by_fen') = GroupFens(games_by_fen) \cup {f}
                    /\ \A f2 \in GroupFens(games_by_fen) \ {f} :
                          lookup(games_by_fen', f2) = lookup(games_by_fen, f2)]_vars

C12_Witness ==
    /\ ~Live
    /\ run = 1
    /\ frozen[1].games = <<gC1, gC1>>
    /\ frozen[2].games = <<gLow, gA>>
    /\ bot = 2
    /\ pc = "games"
    /\ pgn_count = 2
    /\ GroupFens(games_by_fen) = {F1, F2}
    /\ Cardinality(seen) = 2

\* an earlier account of the roster whose export was the one of the
\* account in hand
IngestedBefore ==
    \E j \in 1..(bot - 1) :
        frozen[j].ok /\ frozen[bot].ok /\ frozen[j].games = frozen[bot].games

\* C16: while the export of an account is processed that is identical to
\* the export of an earlier account of the roster, no step changes the seen
\* set or a group, and the final list is the dataset of the games met.
C16_SameStreamAgainAddsNothing ==
    [][/\ pc = "games" /\ ~Live /\ IngestedBefore =>
            /\ seen' = seen
            /\ games_by_fen' = games_by_fen
            /\ encountered' = encountered
       /\ pc = "finalize" /\ pc' = "write" /\ ~Live /\ IngestedBefore =>
            final_games' = Dataset]_vars

C16_Witness ==
    /\ ~Live
    /\ pc = "done"
    /\ bot = 2
    /\ frozen[1].ok /\ frozen[2].ok
    /\ frozen[1].games = <<gC1, gA>>
    /\ frozen[2].games = frozen[1].games
    /\ pgn_count = 2
    /\ Cardinality(seen) = 2
    /\ Len(Stored) = 2

(***************************************************************************)
(* One run of main() on a frozen input set.  main() is a sequential        *)
(* program: whenever it has a next step it takes one.                      *)
(***************************************************************************)
SpecFair == InitTwice /\ [][Next]_vars /\ WF_vars(Next)

\* every account has been processed to the end of its export or skipped on
\* a failed download
AllAccountsDone ==
    /\ bot = Len(Roster)
    /\ \A i \in 1..Len(Roster) :
          IF frozen[i].ok
          THEN /\ i \notin failed
               /\ \A n \in 1..Len(frozen[i].games) :
                     Facts[frozen[i].games[n]].eligible => frozen[i].games[n] \in Met
          ELSE i \in failed

\* C14 as stated: every run on a finite input comes to build the final list.
C14_AlwaysComputes == <>Computed

\* C14: every run on a finite input comes to build the final list or is
\* aborted by a game whose key cannot be rendered; the list is built in one
\* step, never again, and only when every account has been processed or
\* skipped; the accounts are taken one at a time in roster order.
C14_ComputesOnceUnlessAborted ==
    /\ <>(Computed \/ pc = "aborted")
    /\ [][/\ ~Computed /\ Computed' => pc = "finalize" /\ AllAccountsDone
          /\ Computed => Computed' /\ final_games' = final_games
          /\ pc = "finalize" => final_games = <<>>
          /\ bot' # bot => bot' = bot + 1 /\ pc' = "download" /\ pc \in {"download", "games"}
          /\ pc' = "aborted" => pc = "games"]_vars

C14_Witness ==
    /\ pc = "done"
    /\ failed = {1}
    /\ frozen[2].ok
    /\ frozen[2].games = <<gC1, gLow>>
    /\ pgn_count = 2

====
